---- MODULE Spec2Model ----
(***************************************************************************)
(* A model of the Groth16 core of bellman:                                 *)
(*   - domain/primitives/linear.rs        LinearCombination operators      *)
(*   - groth16/generator/assembly/eval.rs key-gen evaluation of the wires  *)
(*   - groth16/prover/system/builder.rs   Builder::try_new / try_build     *)
(*   - groth16/prover/system/context.rs   Answer / Auxiliary MSMs          *)
(* The scalar field Fr is the prime field of order P.  G1 and G2 are       *)
(* cyclic groups of order P; a group element is written as its discrete    *)
(* logarithm to the fixed generator, so the identity is 0, point addition  *)
(* is addition modulo P and scalar multiplication is multiplication        *)
(* modulo P.                                                               *)
(***************************************************************************)
EXTENDS Integers, Sequences, FiniteSets, TLC

VARIABLES
    \* ---- linear.rs: a LinearCombination under construction
    lc,         \* the current LinearCombination: a sequence of <<wire, coeff>>
    lc1,        \* the combination before the last operator was applied
    lc0,        \* the combination before the last two operators were applied
    op1,        \* the last operator applied and its operand
    op0,        \* the operator applied before it, if that was + (coeff, wire)
    \* ---- eval.rs: one EvaluationWriter and the eval calls made on it
    writer,     \* the four output slices a, b_g1, b_g2, ext
    entry,      \* the writer's contents when the current eval call began
    polys,      \* qap_polynomials: the vectors at, bt, ct
    half,       \* "inputs" (ext is ic, inv is 1/gamma) or "aux" (ext is l, inv is 1/delta)
    pc,         \* position of the eval call
    workers,    \* the spawned workers: writer chunk, polynomial chunk, position
    visits,     \* per writer index, the polynomial indices it was processed with
    buf,        \* the buffers batch_normalization fills and normalizes
    evals,      \* number of eval calls made on the writer
    \* ---- builder.rs / context.rs: one prove call
    ppc,        \* position of the prove call
    params,     \* the ParameterSource: the CRS' verifying key
    log,        \* the ParameterSource accessors called so far, in order
    vk,         \* the verifying key try_vk loaded
    blinds,     \* the blinding scalars r and s
    msm,        \* per MSM: "idle", "started" or "awaited"
    hl,         \* the results of the h and l MSMs
    answer,     \* Answer  { a, b1, b2 }
    aux,        \* Auxiliary { a, b1, b2 }
    answer0,    \* answer as held when the Builder was constructed
    proof,      \* ga, gb, gc as computed so far
    perr        \* the error the prove call returned

lcVars == <<lc, lc1, lc0, op1, op0>>
evVars == <<writer, entry, polys, half, pc, workers, visits, buf, evals>>
prVars == <<ppc, params, log, vk, blinds, msm, hl, answer, aux, answer0, proof, perr>>
vars == <<lcVars, evVars, prVars>>

(***************************************************************************)
(* The scalar field and the groups                                         *)
(***************************************************************************)
P == 3
Fr == 0 .. (P - 1)

FrAdd(x, y) == (x + y) % P
FrMul(x, y) == (x * y) % P
FrNegate(x) == (P - x) % P
FrOne == 1 % P

Min2(x, y) == IF x <= y THEN x ELSE y

(***************************************************************************)
(* linear.rs                                                               *)
(***************************************************************************)
MaxTerms == 3       \* longest combination built

\* enum Index { Input(usize), Aux(usize) }, wrapped by Coefficient
Wires == {<<"Input", 0>>, <<"Aux", 0>>}

\* the combinations used as the operand of LC + LC', LC - LC', LC + (c, LC')
\* and LC - (c, LC'): empty, one term, a wire twice, two wires in both orders
Operands ==
    { <<>>,
      << <<<<"Input", 0>>, 1>> >>,
      << <<<<"Aux", 0>>, 2>> >>,
      << <<<<"Input", 0>>, 1>>, <<<<"Input", 0>>, 2>> >>,
      << <<<<"Aux", 0>>, 2>>, <<<<"Input", 0>>, 1>> >>,
      << <<<<"Input", 0>>, 2>>, <<<<"Aux", 0>>, 2>> >> }

\* LinearCombination::zero
zero == <<>>

AddPairMerge(self, coeff, var) ==
    IF \E i \in 1 .. Len(self) : self[i][1] = var
    THEN LET i == CHOOSE i \in 1 .. Len(self) : self[i][1] = var
         IN  [self EXCEPT ![i] = <<var, FrAdd(self[i][2], coeff)>>]
    ELSE Append(self, <<var, coeff>>)

\* impl Add<(Fr, Coefficient)>: self.0.push((var, coeff))
AddPair(self, coeff, var) == Append(self, <<var, coeff>>)

SubPairNoNegate(self, coeff, var) == AddPair(self, coeff, var)

\* impl Sub<(Fr, Coefficient)>: coeff.negate(); self + (coeff, var)
SubPair(self, coeff, var) == AddPair(self, FrNegate(coeff), var)

\* impl Add<Coefficient>: self + (Fr::one(), other)
AddCoefficient(self, other) == AddPair(self, FrOne, other)

\* impl Sub<Coefficient>: self - (Fr::one(), other)
SubCoefficient(self, other) == SubPair(self, FrOne, other)

\* impl Add<&LinearCombination>: for s in &other.0 { self = self + (s.1, s.0) }
RECURSIVE AddLC(_, _)
AddLC(self, other) ==
    IF other = <<>> THEN self
    ELSE AddLC(AddPair(self, Head(other)[2], Head(other)[1]), Tail(other))

\* impl Sub<&LinearCombination>: for s in &other.0 { self = self - (s.1, s.0) }
RECURSIVE SubLC(_, _)
SubLC(self, other) ==
    IF other = <<>> THEN self
    ELSE SubLC(SubPair(self, Head(other)[2], Head(other)[1]), Tail(other))

\* impl Add<(Fr, &LinearCombination)>: tmp = s.1 * coeff; self = self + (tmp, s.0)
RECURSIVE AddScaledLC(_, _, _)
AddScaledLC(self, coeff, other) ==
    IF other = <<>> THEN self
    ELSE AddScaledLC(AddPair(self, FrMul(Head(other)[2], coeff), Head(other)[1]),
                     coeff, Tail(other))

\* impl Sub<(Fr, &LinearCombination)>: tmp = s.1 * coeff; self = self - (tmp, s.0)
RECURSIVE SubScaledLC(_, _, _)
SubScaledLC(self, coeff, other) ==
    IF other = <<>> THEN self
    ELSE SubScaledLC(SubPair(self, FrMul(Head(other)[2], coeff), Head(other)[1]),
                     coeff, Tail(other))

NoOp == [kind |-> "none", c |-> 0, w |-> <<"Input", 0>>, o |-> <<>>]

LCIdle ==
    /\ lc = zero /\ lc1 = zero /\ lc0 = zero
    /\ op1 = NoOp /\ op0 = NoOp

\* the operator op turns lc into new
Applied(new, op) ==
    /\ Len(new) <= MaxTerms
    /\ lc' = new
    /\ lc1' = lc
    /\ lc0' = lc1
    /\ op1' = op
    /\ op0' = (IF op1.kind = "add_pair" THEN op1 ELSE NoOp)
    /\ UNCHANGED <<evVars, prVars>>

DoAddPair ==
    \E c \in Fr, w \in Wires :
        Applied(AddPair(lc, c, w), [kind |-> "add_pair", c |-> c, w |-> w, o |-> <<>>])

DoSubPair ==
    \E c \in Fr, w \in Wires :
        Applied(SubPair(lc, c, w), [kind |-> "sub_pair", c |-> c, w |-> w, o |-> <<>>])

DoAddCoefficient ==
    \E w \in Wires :
        Applied(AddCoefficient(lc, w), [kind |-> "add_wire", c |-> FrOne, w |-> w, o |-> <<>>])

DoSubCoefficient ==
    \E w \in Wires :
        Applied(SubCoefficient(lc, w), [kind |-> "sub_wire", c |-> FrOne, w |-> w, o |-> <<>>])

DoAddLC ==
    \E o \in Operands :
        Applied(AddLC(lc, o), [kind |-> "add_lc", c |-> FrOne, w |-> <<"Input", 0>>, o |-> o])

DoSubLC ==
    \E o \in Operands :
        Applied(SubLC(lc, o), [kind |-> "sub_lc", c |-> FrOne, w |-> <<"Input", 0>>, o |-> o])

DoAddScaledLC ==
    \E c \in Fr, o \in Operands :
        Applied(AddScaledLC(lc, c, o),
                [kind |-> "add_scaled", c |-> c, w |-> <<"Input", 0>>, o |-> o])

DoSubScaledLC ==
    \E c \in Fr, o \in Operands :
        Applied(SubScaledLC(lc, c, o),
                [kind |-> "sub_scaled", c |-> c, w |-> <<"Input", 0>>, o |-> o])

(***************************************************************************)
(* eval.rs                                                                 *)
(***************************************************************************)
MaxLen == 2         \* longest writer slice and polynomial vector
MaxEvals == 2       \* eval calls made on one writer

\* a projective point: the group element v and whether its representation
\* is normalized (is_normalized: the identity, or z = 1)
GZero == [v |-> 0, n |-> TRUE]
is_zero(p) == p.v = 0

\* windows: scalar(repr) multiplies the base by repr; the result of the
\* doublings and additions is the identity or a point with z # 1
WnafScalar(k) == [v |-> k % P, n |-> (k % P = 0)]

\* CurveProjective::batch_normalization, for one point
Normalized(p) == [v |-> p.v, n |-> TRUE]

\* the trapdoors alpha and beta, and the two inverses the callers pass as inv
Trapdoors == [alpha |-> 2, beta |-> 1, gamma_inv |-> 1, delta_inv |-> 2]
InvOf(h) == IF h = "inputs" THEN Trapdoors.gamma_inv ELSE Trapdoors.delta_inv

\* lagrange_coeffs: L_0(tau), L_1(tau)
LagrangeAtTau == <<1, 2>>

\* the lists (coeff, constraint index) of one wire in at, bt and ct
RowUnreferenced == [at |-> <<>>, bt |-> <<>>, ct |-> <<>>]
RowDuplicated ==
    [at |-> << <<1, 0>>, <<1, 0>> >>, bt |-> << <<1, 1>> >>, ct |-> << <<2, 0>> >>]
RowCancelling ==
    [at |-> << <<1, 0>>, <<2, 0>> >>, bt |-> << <<2, 1>> >>, ct |-> << <<1, 1>> >>]
Rows == {RowUnreferenced, RowDuplicated, RowCancelling}

\* tuples of k lengths of which at most one differs from n
Shapes(k, n) ==
    {s \in [1 .. k -> 0 .. MaxLen] : Cardinality({i \in 1 .. k : s[i] # n}) <= 1}

\* WireEvaluation::new: every slot is the identity
NewWriter(s) ==
    [a    |-> [i \in 1 .. s[1] |-> GZero],
     b_g1 |-> [i \in 1 .. s[2] |-> GZero],
     b_g2 |-> [i \in 1 .. s[3] |-> GZero],
     ext  |-> [i \in 1 .. s[4] |-> GZero]]

ListAt(v, i) == IF i \in DOMAIN v THEN v[i] ELSE <<>>

\* KeyPairWires of the lengths s, wire i taking its lists from rows[i]
\* (the empty lists where rows has no entry)
RowAt(rows, i) == IF i \in DOMAIN rows THEN rows[i] ELSE RowUnreferenced
KeyPairWires(rows, s) ==
    [at |-> [i \in 1 .. s[1] |-> RowAt(rows, i).at],
     bt |-> [i \in 1 .. s[2] |-> RowAt(rows, i).bt],
     ct |-> [i \in 1 .. s[3] |-> RowAt(rows, i).ct]]

EmptyBuf == [a |-> <<>>, b_g1 |-> <<>>, b_g2 |-> <<>>, ext |-> <<>>]

sanity_check_no_ext(qap_polynomials, w) ==
    /\ Len(w.a) = Len(qap_polynomials.at)
    /\ Len(w.a) = Len(qap_polynomials.bt)
    /\ Len(w.a) = Len(qap_polynomials.ct)
    /\ Len(w.a) = Len(w.b_g1)
    /\ Len(w.a) = Len(w.b_g2)

\* fn sanity_check
sanity_check(qap_polynomials, w) ==
    /\ Len(w.a) = Len(qap_polynomials.at)
    /\ Len(w.a) = Len(qap_polynomials.bt)
    /\ Len(w.a) = Len(qap_polynomials.ct)
    /\ Len(w.a) = Len(w.b_g1)
    /\ Len(w.a) = Len(w.b_g2)
    /\ Len(w.a) = Len(w.ext)

\* the fold of eval_at_tau: exp = powers_of_tau[idx]; exp *= coeff; acc += exp
RECURSIVE eval_fold(_, _, _)
eval_fold(powers_of_tau, wires, acc) ==
    IF wires = <<>> THEN acc
    ELSE eval_fold(powers_of_tau, Tail(wires),
                   FrAdd(acc, FrMul(powers_of_tau[Head(wires)[2] + 1], Head(wires)[1])))

eval_at_tau_last(powers_of_tau, wires) ==
    IF wires = <<>> THEN 0
    ELSE FrMul(powers_of_tau[wires[Len(wires)][2] + 1], wires[Len(wires)][1])

\* fn eval_at_tau
eval_at_tau(powers_of_tau, wires) == eval_fold(powers_of_tau, wires, 0)

\* the body of eval's loop for one wire: slot is (a, b_g1, b_g2, ext)
EvalWire(slot, at_w, bt_w, ct_w, inv) ==
    LET at == eval_at_tau(LagrangeAtTau, at_w)
        bt == eval_at_tau(LagrangeAtTau, bt_w)
        ct == eval_at_tau(LagrangeAtTau, ct_w)
        e  == FrMul(FrAdd(FrAdd(FrMul(at, Trapdoors.beta), FrMul(bt, Trapdoors.alpha)), ct),
                    inv)
    IN  [a    |-> IF at # 0 THEN WnafScalar(at) ELSE slot.a,
         b_g1 |-> IF bt # 0 THEN WnafScalar(bt) ELSE slot.b_g1,
         b_g2 |-> IF bt # 0 THEN WnafScalar(bt) ELSE slot.b_g2,
         ext  |-> WnafScalar(e)]

\* From<EvaluationWriter> for FlatEvaluationWriter: the zip of the four
\* slices; element i holds the references to slot i of each slice
flatten(w) ==
    [i \in 1 .. Min2(Min2(Len(w.a), Len(w.b_g1)), Min2(Len(w.b_g2), Len(w.ext))) |-> i]

chunks_mut_from_start(self, chunk_size) ==
    [k \in 1 .. ((Len(self) + chunk_size - 1) \div chunk_size) |->
        SubSeq(self, 1, Min2(chunk_size, Len(self) - (k - 1) * chunk_size))]

\* FlatEvaluationWriter::chunks_mut: self.0.chunks_mut(chunk_size)
chunks_mut(self, chunk_size) ==
    [k \in 1 .. ((Len(self) + chunk_size - 1) \div chunk_size) |->
        SubSeq(self, (k - 1) * chunk_size + 1, Min2(k * chunk_size, Len(self)))]

\* FlatKeyPairWires: the indices of the flattened polynomial vectors, chunked
flat_poly_chunks(qap_polynomials, chunk_size) ==
    LET n == Min2(Min2(Len(qap_polynomials.at), Len(qap_polynomials.bt)),
                  Len(qap_polynomials.ct))
    IN  [k \in 1 .. ((n + chunk_size - 1) \div chunk_size) |->
            [j \in 1 .. Min2(chunk_size, n - (k - 1) * chunk_size) |->
                (k - 1) * chunk_size + j]]

\* multi_thread!: one worker per pair of chunks, zipped
SpawnWorkers(wchunks, pchunks) ==
    [k \in 1 .. Min2(Len(wchunks), Len(pchunks)) |->
        [w |-> wchunks[k], p |-> pchunks[k], pos |-> 0]]

WorkerDone(wk) == wk.pos = Min2(Len(wk.w), Len(wk.p))

\* WireEvaluation::is_unconstrained: the loop over self.l, from entry i
RECURSIVE unconstrained_from(_, _)
unconstrained_from(l, i) ==
    IF i > Len(l) THEN FALSE
    ELSE IF is_zero(l[i]) THEN TRUE
    ELSE unconstrained_from(l, i + 1)

is_unconstrained_first(l) == Len(l) > 0 /\ is_zero(l[1])

\* WireEvaluation::is_unconstrained
is_unconstrained(l) == unconstrained_from(l, 1)

EvalIdle ==
    /\ writer = NewWriter(<<0, 0, 0, 0>>) /\ entry = writer
    /\ polys = KeyPairWires(<<>>, <<0, 0, 0>>)
    /\ half = "aux" /\ pc = "idle" /\ workers = <<>> /\ visits = <<>>
    /\ buf = EmptyBuf /\ evals = 0

\* eval, line 26: the sanity check fails
SanityFail ==
    /\ pc = "call"
    /\ ~sanity_check(polys, writer)
    /\ pc' = "err"
    /\ UNCHANGED <<writer, entry, polys, half, workers, visits, buf, evals, lcVars, prVars>>

\* eval, lines 30-34: flatten both sides and hand the chunks to the workers
Spawn ==
    /\ pc = "call"
    /\ sanity_check(polys, writer)
    /\ LET coeff_len == Len(writer.a) IN
       \E chunk_size \in 1 .. (IF coeff_len = 0 THEN 1 ELSE coeff_len) :
          /\ workers' = SpawnWorkers(chunks_mut(flatten(writer), chunk_size),
                                     flat_poly_chunks(polys, chunk_size))
          /\ visits' = [i \in 1 .. coeff_len |-> <<>>]
    /\ pc' = "run"
    /\ UNCHANGED <<writer, entry, polys, half, buf, evals, lcVars, prVars>>

\* eval, lines 35-66: a worker processes the next element of its chunk
WorkerStep ==
    /\ pc = "run"
    /\ \E k \in 1 .. Len(workers) :
        /\ ~WorkerDone(workers[k])
        /\ LET wi == workers[k].w[workers[k].pos + 1]
               pi == workers[k].p[workers[k].pos + 1]
               new == EvalWire([a |-> writer.a[wi], b_g1 |-> writer.b_g1[wi],
                                b_g2 |-> writer.b_g2[wi], ext |-> writer.ext[wi]],
                               polys.at[pi], polys.bt[pi], polys.ct[pi], InvOf(half))
           IN  /\ writer' = [a    |-> [writer.a EXCEPT ![wi] = new.a],
                             b_g1 |-> [writer.b_g1 EXCEPT ![wi] = new.b_g1],
                             b_g2 |-> [writer.b_g2 EXCEPT ![wi] = new.b_g2],
                             ext  |-> [writer.ext EXCEPT ![wi] = new.ext]]
               /\ visits' = [visits EXCEPT ![wi] = Append(@, pi)]
        /\ workers' = [workers EXCEPT ![k].pos = @ + 1]
    /\ UNCHANGED <<entry, polys, half, pc, buf, evals, lcVars, prVars>>

\* eval, lines 69-70: once the workers have joined, batch_normalization copies
\* every point into four buffers and normalizes the buffers; eval returns Ok
BatchNormalization ==
    /\ pc = "run"
    /\ \A k \in 1 .. Len(workers) : WorkerDone(workers[k])
    /\ LET flat == flatten(writer) IN
       buf' = [a    |-> [i \in 1 .. Len(flat) |-> Normalized(writer.a[flat[i]])],
               b_g1 |-> [i \in 1 .. Len(flat) |-> Normalized(writer.b_g1[flat[i]])],
               b_g2 |-> [i \in 1 .. Len(flat) |-> Normalized(writer.b_g2[flat[i]])],
               ext  |-> [i \in 1 .. Len(flat) |-> Normalized(writer.ext[flat[i]])]]
    /\ pc' = "ok"
    /\ UNCHANGED <<writer, entry, polys, half, workers, visits, evals, lcVars, prVars>>

NewCall(p) ==
    /\ pc = "ok"
    /\ evals < MaxEvals
    /\ polys' = p
    /\ entry' = writer
    /\ pc' = "call"
    /\ workers' = <<>>
    /\ visits' = <<>>
    /\ buf' = EmptyBuf
    /\ evals' = evals + 1
    /\ UNCHANGED <<writer, half, lcVars, prVars>>

\* another eval call on the same writer, with other polynomials
EvalAgain ==
    \E rows \in [1 .. Len(writer.a) -> Rows] :
        NewCall(KeyPairWires(rows, <<Len(writer.a), Len(writer.a), Len(writer.a)>>))

\* another eval call on the same writer, one polynomial vector of a wrong length
EvalAgainMalformed ==
    \E s \in Shapes(3, Len(writer.a)) :
        /\ s # <<Len(writer.a), Len(writer.a), Len(writer.a)>>
        /\ NewCall([at |-> [i \in 1 .. s[1] |-> ListAt(polys.at, i)],
                    bt |-> [i \in 1 .. s[2] |-> ListAt(polys.bt, i)],
                    ct |-> [i \in 1 .. s[3] |-> ListAt(polys.ct, i)]])

(***************************************************************************)
(* builder.rs and context.rs                                               *)
(***************************************************************************)
MaxMsm == 1         \* the MSM results range over 0 .. MaxMsm

GAdd(x, y) == (x + y) % P       \* add_assign / add_assign_mixed
GMul(x, k) == (x * k) % P       \* mul / mul_assign by a scalar
GIsZero(x) == x = 0

MsmValues == {v % P : v \in 0 .. MaxMsm}

\* the verifying keys a ParameterSource may hold
VerifyingKeys ==
    [delta_g1 : Fr, delta_g2 : Fr, alpha_g1 : {1}, beta_g1 : {2}, beta_g2 : {2}]

MSMs == {"h", "l", "a_input", "b1_input", "b2_input", "a_aux", "b1_aux", "b2_aux"}
AnswerOrder == <<"a_input", "b1_input", "b2_input">>
AuxiliaryOrder == <<"a_aux", "b1_aux", "b2_aux">>

NoPoints == [a |-> 0, b1 |-> 0, b2 |-> 0]

ProverIdle ==
    /\ ppc = "idle" /\ params = [vk |-> [delta_g1 |-> 1, delta_g2 |-> 1, alpha_g1 |-> 1,
                                          beta_g1 |-> 2, beta_g2 |-> 2]]
    /\ log = <<>> /\ vk = <<>> /\ blinds = [r |-> 0, s |-> 0]
    /\ msm = [m \in MSMs |-> "idle"] /\ hl = [h |-> 0, l |-> 0]
    /\ answer = NoPoints /\ aux = NoPoints /\ answer0 = NoPoints
    /\ proof = <<>> /\ perr = "none"

try_vk_g1_only(key) ==
    IF GIsZero(key.delta_g1) THEN "UnexpectedIdentity" ELSE "Ok"

\* fn try_vk, after params.get_vk()? returned key
try_vk(key) ==
    IF GIsZero(key.delta_g1) \/ GIsZero(key.delta_g2) THEN "UnexpectedIdentity" ELSE "Ok"

\* the Builder as try_build holds it
Self ==
    [vk |-> vk[1], r |-> blinds.r, s |-> blinds.s, h |-> hl.h, l |-> hl.l,
     answer |-> answer, aux |-> aux]

try_ga_on_copy(self) ==
    [out |-> GAdd(GAdd(GMul(self.vk.delta_g1, self.r), self.vk.alpha_g1),
                  GAdd(self.answer.a, self.aux.a)),
     answer |-> self.answer]

\* Builder::try_ga: returns ga and leaves answer.a increased by aux.a
try_ga(self) ==
    LET ga0 == GAdd(GMul(self.vk.delta_g1, self.r), self.vk.alpha_g1)
        a   == GAdd(self.answer.a, self.aux.a)
    IN  [out |-> GAdd(ga0, a), answer |-> [self.answer EXCEPT !.a = a]]

\* Builder::try_gb: returns gb and leaves answer.b2 increased by aux.b2
try_gb(self) ==
    LET gb0 == GAdd(GMul(self.vk.delta_g2, self.s), self.vk.beta_g2)
        b2  == GAdd(self.answer.b2, self.aux.b2)
    IN  [out |-> GAdd(gb0, b2), answer |-> [self.answer EXCEPT !.b2 = b2]]

\* Builder::try_gc
try_gc(self) ==
    LET delta_rs == GMul(self.vk.delta_g1, FrMul(self.r, self.s))
        a_mul_s  == GMul(self.vk.alpha_g1, self.s)
        b_mul_r  == GMul(self.vk.beta_g1, self.r)
        gc0      == GAdd(GAdd(delta_rs, a_mul_s), b_mul_r)
        a        == GMul(self.answer.a, self.s)
        b1       == GMul(GAdd(self.answer.b1, self.aux.b1), self.r)
        gc1      == GAdd(GAdd(gc0, a), b1)
    IN  [out |-> GAdd(GAdd(gc1, self.h), self.l),
         answer |-> [self.answer EXCEPT !.a = a, !.b1 = b1]]

Failed(e) ==
    /\ ppc' = "failed"
    /\ perr' = e

\* try_new, line 35: try_vk(params)?
TryVk ==
    /\ ppc = "try_vk"
    /\ log' = Append(log, "get_vk")
    /\ \/ /\ Failed("IoError")                         \* params.get_vk()? fails
          /\ UNCHANGED vk
       \/ /\ vk' = <<params.vk>>
          /\ IF try_vk(params.vk) = "Ok"
             THEN ppc' = "try_h" /\ UNCHANGED perr
             ELSE Failed(try_vk(params.vk))
    /\ UNCHANGED <<params, blinds, msm, hl, answer, aux, answer0, proof, lcVars, evVars>>

\* try_new, line 36: try_h kicks off the h MSM over params.get_h()?
TryH ==
    /\ ppc = "try_h"
    /\ log' = Append(log, "get_h")
    /\ \/ Failed("IoError") /\ UNCHANGED msm
       \/ /\ msm' = [msm EXCEPT !["h"] = "started"]
          /\ ppc' = "try_l"
          /\ UNCHANGED perr
    /\ UNCHANGED <<params, vk, blinds, hl, answer, aux, answer0, proof, lcVars, evVars>>

\* try_new, lines 38-39: into_primefield, then try_l kicks off the l MSM
TryL ==
    /\ ppc = "try_l"
    /\ log' = Append(log, "get_l")
    /\ \/ Failed("IoError") /\ UNCHANGED msm
       \/ /\ msm' = [msm EXCEPT !["l"] = "started"]
          /\ ppc' = "factory"
          /\ UNCHANGED perr
    /\ UNCHANGED <<params, vk, blinds, hl, answer, aux, answer0, proof, lcVars, evVars>>

\* try_new, line 41: SourceFactory::try_new reads the A and B query bases
SourceFactory ==
    /\ ppc = "factory"
    /\ log' = log \o <<"get_a", "get_b_g1", "get_b_g2">>
    /\ ppc' = "answer"
    /\ UNCHANGED <<params, vk, blinds, msm, hl, answer, aux, answer0, proof, perr,
                   lcVars, evVars>>

\* the first MSM of order that is in state st, all before it being awaited
NextIn(order, st) ==
    {i \in 1 .. Len(order) :
        /\ msm[order[i]] = st
        /\ \A j \in 1 .. (i - 1) : msm[order[j]] = "awaited"}

Field(m) == IF m \in {"a_input", "a_aux"} THEN "a"
            ELSE IF m \in {"b1_input", "b1_aux"} THEN "b1" ELSE "b2"

\* Answer::try_new: multiexp(...) of the next of a, b1, b2
AnswerMultiexp ==
    /\ ppc = "answer"
    /\ \E i \in NextIn(AnswerOrder, "idle") :
          msm' = [msm EXCEPT ![AnswerOrder[i]] = "started"]
    /\ UNCHANGED <<ppc, params, log, vk, blinds, hl, answer, aux, answer0, proof, perr,
                   lcVars, evVars>>

\* Answer::try_new: .wait()? on the MSM just started
AnswerWait ==
    /\ ppc = "answer"
    /\ \E i \in NextIn(AnswerOrder, "started") :
        \/ Failed("MsmFailed") /\ UNCHANGED <<msm, answer>>
        \/ \E v \in MsmValues :
            /\ msm' = [msm EXCEPT ![AnswerOrder[i]] = "awaited"]
            /\ answer' = [answer EXCEPT ![Field(AnswerOrder[i])] = v]
            /\ ppc' = IF i = Len(AnswerOrder) THEN "auxiliary" ELSE "answer"
            /\ UNCHANGED perr
    /\ UNCHANGED <<params, log, vk, blinds, hl, aux, answer0, proof, lcVars, evVars>>

\* Auxiliary::try_new: multiexp(...) of the next of a, b1, b2
AuxiliaryMultiexp ==
    /\ ppc = "auxiliary"
    /\ \E i \in NextIn(AuxiliaryOrder, "idle") :
          msm' = [msm EXCEPT ![AuxiliaryOrder[i]] = "started"]
    /\ UNCHANGED <<ppc, params, log, vk, blinds, hl, answer, aux, answer0, proof, perr,
                   lcVars, evVars>>

\* Auxiliary::try_new: .wait()? on the MSM just started
AuxiliaryWait ==
    /\ ppc = "auxiliary"
    /\ \E i \in NextIn(AuxiliaryOrder, "started") :
        \/ Failed("MsmFailed") /\ UNCHANGED <<msm, aux>>
        \/ \E v \in MsmValues :
            /\ msm' = [msm EXCEPT ![AuxiliaryOrder[i]] = "awaited"]
            /\ aux' = [aux EXCEPT ![Field(AuxiliaryOrder[i])] = v]
            /\ ppc' = IF i = Len(AuxiliaryOrder) THEN "wait_h" ELSE "auxiliary"
            /\ UNCHANGED perr
    /\ UNCHANGED <<params, log, vk, blinds, hl, answer, answer0, proof, lcVars, evVars>>

\* try_new, line 48: h.wait()?
WaitH ==
    /\ ppc = "wait_h"
    /\ \/ Failed("MsmFailed") /\ UNCHANGED <<msm, hl>>
       \/ \E v \in MsmValues :
            /\ msm' = [msm EXCEPT !["h"] = "awaited"]
            /\ hl' = [hl EXCEPT !.h = v]
            /\ ppc' = "wait_l"
            /\ UNCHANGED perr
    /\ UNCHANGED <<params, log, vk, blinds, answer, aux, answer0, proof, lcVars, evVars>>

\* try_new, lines 49-51: l.wait()?, and the Builder exists
WaitL ==
    /\ ppc = "wait_l"
    /\ \/ Failed("MsmFailed") /\ UNCHANGED <<msm, hl, answer0>>
       \/ \E v \in MsmValues :
            /\ msm' = [msm EXCEPT !["l"] = "awaited"]
            /\ hl' = [hl EXCEPT !.l = v]
            /\ answer0' = answer
            /\ ppc' = "built"
            /\ UNCHANGED perr
    /\ UNCHANGED <<params, log, vk, blinds, answer, aux, proof, lcVars, evVars>>

\* try_build, line 55
TryGa ==
    /\ ppc = "built"
    /\ proof' = <<try_ga(Self).out>>
    /\ answer' = try_ga(Self).answer
    /\ ppc' = "ga"
    /\ UNCHANGED <<params, log, vk, blinds, msm, hl, aux, answer0, perr, lcVars, evVars>>

\* try_build, line 56
TryGb ==
    /\ ppc = "ga"
    /\ proof' = Append(proof, try_gb(Self).out)
    /\ answer' = try_gb(Self).answer
    /\ ppc' = "gb"
    /\ UNCHANGED <<params, log, vk, blinds, msm, hl, aux, answer0, perr, lcVars, evVars>>

\* try_build, lines 57-58
TryGc ==
    /\ ppc = "gb"
    /\ proof' = Append(proof, try_gc(Self).out)
    /\ answer' = try_gc(Self).answer
    /\ ppc' = "proof"
    /\ UNCHANGED <<params, log, vk, blinds, msm, hl, aux, answer0, perr, lcVars, evVars>>

(***************************************************************************)
(* The specifications                                                      *)
(***************************************************************************)
InitLC == LCIdle /\ EvalIdle /\ ProverIdle

NextLC ==
    \/ DoAddPair
    \/ DoSubPair
    \/ DoAddCoefficient
    \/ DoSubCoefficient
    \/ DoAddLC
    \/ DoSubLC
    \/ DoAddScaledLC
    \/ DoSubScaledLC

SpecLC == InitLC /\ [][NextLC]_vars

\* a writer taken from a new WireEvaluation and the first eval call on it
InitEval ==
    /\ LCIdle
    /\ ProverIdle
    /\ \E n \in 0 .. MaxLen :
       \E ws \in Shapes(4, n), ps \in Shapes(3, n), rows \in [1 .. MaxLen -> Rows] :
          /\ writer = NewWriter(ws)
          /\ entry = NewWriter(ws)
          /\ polys = KeyPairWires(rows, ps)
    /\ half \in {"inputs", "aux"}
    /\ pc = "call"
    /\ workers = <<>>
    /\ visits = <<>>
    /\ buf = EmptyBuf
    /\ evals = 1

NextEval ==
    \/ SanityFail
    \/ Spawn
    \/ WorkerStep
    \/ BatchNormalization
    \/ EvalAgain
    \/ EvalAgainMalformed

SpecEval == InitEval /\ [][NextEval]_vars

\* a prove call about to load the verifying key
InitProver ==
    /\ LCIdle
    /\ EvalIdle
    /\ ppc = "try_vk"
    /\ params \in [vk : VerifyingKeys]
    /\ log = <<>>
    /\ vk = <<>>
    /\ blinds \in [r : Fr, s : Fr]
    /\ msm = [m \in MSMs |-> "idle"]
    /\ hl = [h |-> 0, l |-> 0]
    /\ answer = NoPoints
    /\ aux = NoPoints
    /\ answer0 = NoPoints
    /\ proof = <<>>
    /\ perr = "none"

NextProver ==
    \/ TryVk
    \/ TryH
    \/ TryL
    \/ SourceFactory
    \/ AnswerMultiexp
    \/ AnswerWait
    \/ AuxiliaryMultiexp
    \/ AuxiliaryWait
    \/ WaitH
    \/ WaitL
    \/ TryGa
    \/ TryGb
    \/ TryGc

SpecProver == InitProver /\ [][NextProver]_vars

(***************************************************************************)
(* Properties of the LinearCombination operators (SpecLC)                  *)
(***************************************************************************)
Assignments == [Wires -> Fr]

\* the value of a combination on an assignment: the sum of coeff * value(wire)
RECURSIVE SumOfTerms(_, _, _)
SumOfTerms(c, asg, j) ==
    IF j = 0 THEN 0 ELSE SumOfTerms(c, asg, j - 1) + c[j][2] * asg[c[j][1]]
Evaluate(c, asg) == SumOfTerms(c, asg, Len(c)) % P

\* the wires an operator appends, in order
AppendedWires(op) ==
    IF op.kind \in {"add_pair", "sub_pair", "add_wire", "sub_wire"} THEN <<op.w>>
    ELSE [j \in 1 .. Len(op.o) |-> op.o[j][1]]

\* C6: on every assignment (LC + a) - a evaluates as LC does, LC1 + (c, LC2)
\* evaluates to LC1 + c * LC2 and LC1 - (c, LC2) to LC1 - c * LC2, whether or
\* not a wire occurs more than once.
C6_OperatorsAgreeWithField ==
    \A asg \in Assignments :
        /\ (op1.kind = "sub_pair" /\ op0.kind = "add_pair"
                /\ op0.c = op1.c /\ op0.w = op1.w)
              => Evaluate(lc, asg) = Evaluate(lc0, asg)
        /\ op1.kind = "add_scaled"
              => Evaluate(lc, asg) = (Evaluate(lc1, asg) + op1.c * Evaluate(op1.o, asg)) % P
        /\ op1.kind = "sub_scaled"
              => Evaluate(lc, asg)
                   = (Evaluate(lc1, asg) + P * P - op1.c * Evaluate(op1.o, asg)) % P

\* a pair with a non-zero coefficient was added to a non-empty combination
\* and subtracted again
C6_Witness ==
    /\ op1.kind = "sub_pair" /\ op0.kind = "add_pair"
    /\ op0.c = op1.c /\ op0.w = op1.w
    /\ op1.c # 0
    /\ Len(lc0) > 0
    /\ Len(lc) = Len(lc0) + 2

\* C7: every operator leaves the previous terms as an unchanged prefix and
\* appends one term per term of its operand, on the operand's wires in the
\* operand's order, also when the wire is already present.
C7_OperatorsAppend ==
    op1.kind # "none" =>
        /\ Len(lc) = Len(lc1) + Len(AppendedWires(op1))
        /\ SubSeq(lc, 1, Len(lc1)) = lc1
        /\ \A j \in 1 .. Len(AppendedWires(op1)) :
              lc[Len(lc1) + j][1] = AppendedWires(op1)[j]

\* a pair was added on a wire the combination already held
C7_Witness ==
    /\ op1.kind = "add_pair"
    /\ \E i \in 1 .. Len(lc1) : lc1[i][1] = op1.w
    /\ Len(lc) = Len(lc1) + 1

(***************************************************************************)
(* Properties of eval (SpecEval)                                           *)
(***************************************************************************)
AllLengthsEqual ==
    \A n \in {Len(writer.b_g1), Len(writer.b_g2), Len(writer.ext),
              Len(polys.at), Len(polys.bt), Len(polys.ct)} : n = Len(writer.a)

\* C3: when the seven lengths are not all equal eval returns
\* Err(MalformedWireSize) with every writer slot as it was; when they are all
\* equal eval does not fail.
C3_SanityCheckedFirst ==
    /\ (pc \in {"run", "ok", "err"} /\ ~AllLengthsEqual) => (pc = "err" /\ writer = entry)
    /\ (pc \in {"run", "ok", "err"} /\ AllLengthsEqual) => pc # "err"

\* eval refused polynomial vectors of which bt alone has another length, and
\* the points an earlier call wrote are still in the writer
C3_Witness ==
    /\ pc = "err"
    /\ Len(writer.a) = Len(writer.b_g1) /\ Len(writer.a) = Len(writer.b_g2)
    /\ Len(writer.a) = Len(polys.at) /\ Len(polys.bt) # Len(writer.a)
    /\ \E i \in 1 .. Len(writer.a) : ~is_zero(writer.a[i])

\* X_w(tau): the sum of coeff * L_i(tau) over all entries of a wire's list
RECURSIVE SumOfEntries(_, _)
SumOfEntries(list, j) ==
    IF j = 0 THEN 0
    ELSE SumOfEntries(list, j - 1) + list[j][1] * LagrangeAtTau[list[j][2] + 1]
PolyAtTau(list) == SumOfEntries(list, Len(list)) % P

ExtExponent(w) ==
    ((Trapdoors.beta * PolyAtTau(polys.at[w]) + Trapdoors.alpha * PolyAtTau(polys.bt[w])
        + PolyAtTau(polys.ct[w])) * InvOf(half)) % P

\* C4 as stated: after eval returns Ok, a[w] is g1^A_w(tau), or the identity
\* when A_w(tau) = 0; b_g1[w] and b_g2[w] likewise for B_w(tau); ext[w] is
\* g1^((beta A_w + alpha B_w + C_w) inv).
C4_Original ==
    pc = "ok" =>
        \A w \in 1 .. Len(writer.a) :
            /\ writer.a[w].v = PolyAtTau(polys.at[w])
            /\ writer.b_g1[w].v = PolyAtTau(polys.bt[w])
            /\ writer.b_g2[w].v = PolyAtTau(polys.bt[w])
            /\ writer.ext[w].v = ExtExponent(w)

\* C4 amended: after eval returns Ok, a[w] is g1^A_w(tau) when A_w(tau) # 0 and
\* otherwise the point the slot held when eval was called (the identity for a
\* new WireEvaluation); b_g1[w] and b_g2[w] likewise for B_w(tau); ext[w] is
\* g1^((beta A_w + alpha B_w + C_w) inv).
C4_QueriesOrEntryValue ==
    pc = "ok" =>
        \A w \in 1 .. Len(writer.a) :
            /\ writer.a[w].v = (IF PolyAtTau(polys.at[w]) # 0
                                THEN PolyAtTau(polys.at[w]) ELSE entry.a[w].v)
            /\ writer.b_g1[w].v = (IF PolyAtTau(polys.bt[w]) # 0
                                   THEN PolyAtTau(polys.bt[w]) ELSE entry.b_g1[w].v)
            /\ writer.b_g2[w].v = (IF PolyAtTau(polys.bt[w]) # 0
                                   THEN PolyAtTau(polys.bt[w]) ELSE entry.b_g2[w].v)
            /\ writer.ext[w].v = ExtExponent(w)
            /\ (is_zero(entry.a[w]) /\ is_zero(entry.b_g1[w]) /\ is_zero(entry.b_g2[w]))
                  => /\ writer.a[w].v = PolyAtTau(polys.at[w])
                     /\ writer.b_g1[w].v = PolyAtTau(polys.bt[w])
                     /\ writer.b_g2[w].v = PolyAtTau(polys.bt[w])

\* eval returned Ok for a wire whose list sums to zero without being empty,
\* on a slot an earlier call had written, next to a wire with a duplicate entry
C4_Witness ==
    /\ pc = "ok"
    /\ \E w \in 1 .. Len(writer.a) :
          /\ polys.at[w] # <<>>
          /\ PolyAtTau(polys.at[w]) = 0
          /\ ~is_zero(entry.a[w])
          /\ ~is_zero(writer.a[w])
    /\ \E w \in 1 .. Len(writer.a) :
          /\ polys.at[w] = RowDuplicated.at
          /\ writer.a[w].v = 2

\* C5: is_unconstrained is true exactly when some entry of l is the identity;
\* after evaluation of the aux writer a wire whose at, bt and ct lists are
\* empty has the identity as its l entry, and is_unconstrained is true.
C5_UnconstrainedDetected ==
    half = "aux" =>
        /\ is_unconstrained(writer.ext)
              <=> (\E i \in 1 .. Len(writer.ext) : writer.ext[i].v = 0)
        /\ pc = "ok" =>
              \A w \in 1 .. Len(writer.ext) :
                  (polys.at[w] = <<>> /\ polys.bt[w] = <<>> /\ polys.ct[w] = <<>>)
                     => (is_zero(writer.ext[w]) /\ is_unconstrained(writer.ext))

\* the aux writer was evaluated for a constrained first wire and a second wire
\* that no constraint references
C5_Witness ==
    /\ pc = "ok" /\ half = "aux"
    /\ Len(writer.ext) = 2
    /\ ~is_zero(writer.ext[1])
    /\ polys.at[2] = <<>> /\ polys.bt[2] = <<>> /\ polys.ct[2] = <<>>
    /\ is_unconstrained(writer.ext)

AllWorkersDone == \A k \in 1 .. Len(workers) : WorkerDone(workers[k])

AllNormalized(points) == \A i \in 1 .. Len(points) : points[i].n

\* C8: normalization starts only after every worker has finished its chunk,
\* and when eval returns Ok every point in the writer's four slices is in
\* normalized form.
C8_WriterNormalizedOnReturn ==
    /\ (pc = "ok" \/ buf # EmptyBuf) => AllWorkersDone
    /\ pc = "ok" =>
          /\ AllNormalized(writer.a)
          /\ AllNormalized(writer.b_g1)
          /\ AllNormalized(writer.b_g2)
          /\ AllNormalized(writer.ext)

\* the writer indices of worker k's chunk, with multiplicity
Owned(i) ==
    {kj \in {<<k, j>> : k \in 1 .. Len(workers), j \in 1 .. MaxLen + 1} :
        /\ kj[2] <= Len(workers[kj[1]].w)
        /\ workers[kj[1]].w[kj[2]] = i}

SlotOf(w, i) == [a |-> w.a[i], b_g1 |-> w.b_g1[i], b_g2 |-> w.b_g2[i], ext |-> w.ext[i]]

\* C10: every writer index belongs to exactly one worker's chunk, paired with
\* the polynomial lists of the same index; no slot is written by two workers;
\* every index is processed exactly once; the contents of the writer depend on
\* the interleaving of the workers neither during the run nor at its end.
C10_DisjointChunks ==
    pc \in {"run", "ok"} =>
        \A i \in 1 .. Len(writer.a) :
            /\ Cardinality(Owned(i)) = 1
            /\ \A kj \in Owned(i) : workers[kj[1]].p[kj[2]] = i
            /\ visits[i] \in {<<>>, <<i>>}
            /\ pc = "ok" => visits[i] = <<i>>
            /\ SlotOf(writer, i) =
                 (IF visits[i] = <<>> THEN SlotOf(entry, i)
                  ELSE EvalWire(SlotOf(entry, i), polys.at[i], polys.bt[i], polys.ct[i],
                                InvOf(half)))

\* eval returned Ok after two workers wrote their slots
C10_Witness ==
    /\ pc = "ok"
    /\ Len(workers) >= 2
    /\ \E i \in 1 .. Len(writer.a) : writer.a[i] # entry.a[i]
    /\ \E i \in 1 .. Len(writer.a) : writer.ext[i] # entry.ext[i]

(***************************************************************************)
(* Properties of the prove call (SpecProver)                               *)
(***************************************************************************)
BuilderExists == ppc \in {"built", "ga", "gb", "proof"}

\* C1: once the verifying key is loaded with delta_g1 or delta_g2 the
\* identity, try_new has failed with UnexpectedIdentity, get_vk is the only
\* accessor called, no MSM is started and neither Builder nor proof exists;
\* with both deltas non-identity the loaded key is the one of the parameters.
C1_SubversionRejected ==
    vk # <<>> =>
        /\ vk[1] = params.vk
        /\ (GIsZero(vk[1].delta_g1) \/ GIsZero(vk[1].delta_g2)) =>
              /\ ppc = "failed"
              /\ perr = "UnexpectedIdentity"
              /\ log = <<"get_vk">>
              /\ \A m \in MSMs : msm[m] = "idle"
              /\ ~BuilderExists
              /\ proof = <<>>

\* the key was loaded with delta_g2 alone the identity, and try_new failed
C1_Witness ==
    /\ vk # <<>>
    /\ ~GIsZero(vk[1].delta_g1) /\ GIsZero(vk[1].delta_g2)
    /\ ppc = "failed"
    /\ perr = "UnexpectedIdentity"

\* C2: try_build returns A = delta_g1 r + alpha_g1 + (answer.a + aux.a),
\* B = delta_g2 s + beta_g2 + (answer.b2 + aux.b2) and C = delta_g1 (r s) +
\* alpha_g1 s + beta_g1 r + s (answer.a + aux.a) + r (answer.b1 + aux.b1) + h + l
\* for answer and aux as held when try_build starts: aux.a is added once and
\* is part of the term multiplied by s.
C2_ProofComposition ==
    LET k == vk[1]
        r == blinds.r
        s == blinds.s
    IN  /\ Len(proof) >= 1 =>
              proof[1] = (k.delta_g1 * r + k.alpha_g1 + (answer0.a + aux.a)) % P
        /\ Len(proof) >= 2 =>
              proof[2] = (k.delta_g2 * s + k.beta_g2 + (answer0.b2 + aux.b2)) % P
        /\ Len(proof) >= 3 =>
              proof[3] = (k.delta_g1 * (r * s) + k.alpha_g1 * s + k.beta_g1 * r
                          + s * (answer0.a + aux.a) + r * (answer0.b1 + aux.b1)
                          + hl.h + hl.l) % P
        /\ ppc = "proof" => Len(proof) = 3

\* a proof was built with non-zero blinds and non-identity answer.a and aux.a
C2_Witness ==
    /\ ppc = "proof"
    /\ blinds.r # 0 /\ blinds.s # 0
    /\ answer0.a # 0 /\ aux.a # 0 /\ aux.b1 # 0
    /\ hl.h # 0

\* C9: no MSM is awaited before the h, l and the six A / B_G1 / B_G2 MSMs
\* have all been started.
C9_AllStartedBeforeAnyWait ==
    (\E m \in MSMs : msm[m] = "awaited") => (\A m \in MSMs : msm[m] # "idle")

====
